---- MODULE Spec2Model ----
(***************************************************************************)
(* Model of the painter timesheet application:                             *)
(*   shared/utils.py              time parsing, validation, hours          *)
(*   painter_app/pages/daily_entry.py   add_location, save_entry,          *)
(*                                      get_todays_entry, the page script  *)
(* Clock times are minutes since midnight; time texts are tuples of        *)
(* one-character strings so that parsing is computed, not assumed.         *)
(***************************************************************************)
EXTENDS Integers, Sequences, FiniteSets, TLC

VARIABLES
    tin,        \* inputs of the pure time functions (SpecTime)
    tout,       \* result of the last applied time function (SpecTime)
    db,         \* committed store: locations, daily_entries, daily_locations
    wdb,        \* working copy of the connection holding the write lock
    writer,     \* connection holding SQLite's RESERVED lock, 0 if none
    shared,     \* connections holding a SHARED lock inside a transaction
    pc,         \* per connection: position inside add_location / save_entry
    call,       \* per connection: arguments and locals of the running call
    res,        \* per connection: value returned by the last finished call
    ui,         \* the pages of one browser session: Streamlit session
                \* state and the position of the running script
    now         \* datetime.utcnow(), in minutes

vars == <<tin, tout, db, wdb, writer, shared, pc, call, res, ui, now>>
storeVars == <<db, wdb, writer, shared, pc, call, res>>
timeVars == <<tin, tout, ui, now>>

\* Python's None where a time of day (minutes since midnight) is expected
None == -1

\* Python's None / SQL NULL where a text is expected; texts are tuples of
\* one-character strings, so this value is different from every text
NoneText == <<"None">>

(***************************************************************************)
(* shared/utils.py                                                         *)
(***************************************************************************)

\* what parse_time gives for an argument that is no str (None): strptime
\* raises TypeError, which parse_time does not catch
TypeError == -2

AsciiDigits == {"0", "1", "2", "3", "4", "5", "6", "7", "8", "9"}

\* a decimal digit outside ASCII, ARABIC-INDIC DIGIT THREE, written by its
\* code point: \d of a regular expression, int() and str.isalnum() take
\* it like "3"
OtherDigits == {"U+0663"}

DigitChars == AsciiDigits \cup OtherDigits

DigitVal(c) ==
    CASE c = "0" -> 0 [] c = "1" -> 1 [] c = "2" -> 2 [] c = "3" -> 3
      [] c = "4" -> 4 [] c = "5" -> 5 [] c = "6" -> 6 [] c = "7" -> 7
      [] c = "8" -> 8 [] c = "9" -> 9 [] c = "U+0663" -> 3

\* int() of a run of one or two decimal digits
NumField(s) ==
    IF Len(s) = 1 THEN DigitVal(s[1])
    ELSE 10 * DigitVal(s[1]) + DigitVal(s[2])

\* the field of %H, matched by 2[0-3]|[0-1]\d|\d: None when s is no match
HourField(s) ==
    IF \/ Len(s) = 1 /\ s[1] \in DigitChars
       \/ Len(s) = 2 /\ s[1] = "2" /\ s[2] \in {"0", "1", "2", "3"}
       \/ Len(s) = 2 /\ s[1] \in {"0", "1"} /\ s[2] \in DigitChars
    THEN NumField(s)
    ELSE None

\* the field of %M, matched by [0-5]\d|\d: None when s is no match
MinuteField(s) ==
    IF \/ Len(s) = 1 /\ s[1] \in DigitChars
       \/ Len(s) = 2 /\ s[1] \in {"0", "1", "2", "3", "4", "5"}
                     /\ s[2] \in DigitChars
    THEN NumField(s)
    ELSE None

\* datetime.strptime(time_str, "%H:%M").time(), None on ValueError: the
\* text has to be an hour field, ":" and a minute field with no character
\* left over.  TypeError for an argument that is no str.
parse_time(time_str) ==
    LET n == Len(time_str)
        cuts == {i \in 2..3 : i < n /\ time_str[i] = ":"}
    IN  IF time_str = NoneText THEN TypeError
        ELSE IF cuts = {} THEN None
        ELSE LET i == CHOOSE j \in cuts : \A k \in cuts : j <= k
                 h == HourField(SubSeq(time_str, 1, i - 1))
                 m == MinuteField(SubSeq(time_str, i + 1, n))
             IN  IF h = None \/ m = None THEN None
                 ELSE 60 * h + m

\* time.strftime("%H:%M")
DigitChar(d) ==
    CASE d = 0 -> "0" [] d = 1 -> "1" [] d = 2 -> "2" [] d = 3 -> "3"
      [] d = 4 -> "4" [] d = 5 -> "5" [] d = 6 -> "6" [] d = 7 -> "7"
      [] d = 8 -> "8" [] d = 9 -> "9"

strftime(t) ==
    LET h == t \div 60
        m == t % 60
    IN  <<DigitChar(h \div 10), DigitChar(h % 10), ":",
          DigitChar(m \div 10), DigitChar(m % 10)>>

ErrWorkOrder == "Work start time must be before work end time"
ErrBreakBoth == "Both break start and end times must be set"
ErrBreakOrder == "Break start time must be before break end time"
ErrBreakEarly == "Break cannot start before work starts"
ErrBreakLate == "Break cannot end after work ends"

Returned(ok, msg) == [raised |-> FALSE, ok |-> ok, error |-> msg]
Raised(exc) == [raised |-> TRUE, ok |-> FALSE, error |-> exc]

\* mutant: a break starting exactly at work start passes
validate_times_lax(work_start, break_start, break_end, work_end) ==
    IF work_start = None \/ work_end = None THEN Raised("TypeError")
    ELSE IF work_start >= work_end THEN Returned(FALSE, ErrWorkOrder)
    ELSE IF break_start = None /\ break_end = None THEN Returned(TRUE, "")
    ELSE IF (break_start # None) # (break_end # None)
         THEN Returned(FALSE, ErrBreakBoth)
    ELSE IF break_start >= break_end THEN Returned(FALSE, ErrBreakOrder)
    ELSE IF break_start < work_start THEN Returned(FALSE, ErrBreakEarly)
    ELSE IF break_end >= work_end THEN Returned(FALSE, ErrBreakLate)
    ELSE Returned(TRUE, "")

\* validate_times: the first failing test decides the message.  A time of
\* day is always truthy, so "not break_start" is exactly "is None";
\* comparing None with >= raises TypeError.
validate_times(work_start, break_start, break_end, work_end) ==
    IF work_start = None \/ work_end = None THEN Raised("TypeError")
    ELSE IF work_start >= work_end THEN Returned(FALSE, ErrWorkOrder)
    ELSE IF break_start = None /\ break_end = None THEN Returned(TRUE, "")
    ELSE IF (break_start # None) # (break_end # None)
         THEN Returned(FALSE, ErrBreakBoth)
    ELSE IF break_start >= break_end THEN Returned(FALSE, ErrBreakOrder)
    ELSE IF break_start <= work_start THEN Returned(FALSE, ErrBreakEarly)
    ELSE IF break_end >= work_end THEN Returned(FALSE, ErrBreakLate)
    ELSE Returned(TRUE, "")

\* mutant: breaks of up to an hour are free of deduction
calculate_break_deduction_hour(break_start, break_end) ==
    LET break_duration == break_end - break_start
    IN  IF break_duration <= 60 THEN 0 ELSE 30

calculate_break_deduction(break_start, break_end) ==
    LET break_duration == break_end - break_start
    IN  IF break_duration <= 30 THEN 0 ELSE 30

\* round(total_minutes / 60, 2) in hundredths of an hour.  100*m/60 = 5m/3
\* never has fractional part one half, so rounding is to the nearest
\* hundredth both for positive and for negative m.
RoundHours(total_minutes) == (10 * total_minutes + 3) \div 6

\* mutant: the flat deduction is subtracted instead of the actual break
calculate_hours_deducting(work_start, break_start, break_end, work_end) ==
    LET total_minutes == work_end - work_start
    IN  IF break_start # None /\ break_end # None
        THEN LET d == calculate_break_deduction(break_start, break_end)
             IN  <<RoundHours(total_minutes - d), d>>
        ELSE <<RoundHours(total_minutes), 0>>

\* calculate_hours: <<hours in hundredths, break deduction in minutes>>
calculate_hours(work_start, break_start, break_end, work_end) ==
    LET total_minutes == work_end - work_start
    IN  IF break_start # None /\ break_end # None
        THEN LET actual_break == break_end - break_start
             IN  <<RoundHours(total_minutes - actual_break),
                   calculate_break_deduction(break_start, break_end)>>
        ELSE <<RoundHours(total_minutes), 0>>

\* shortest work duration, in minutes, for which a break is suggested
MinWorkForBreak == 360

\* half the length, in minutes, of the suggested break
HalfBreak == 30

\* mutant: the break is suggested only for more than six hours of work
calculate_break_time_over(start_time, end_time) ==
    LET total_minutes == end_time - start_time
        mid_minutes == start_time + (total_minutes \div 2)
    IN  IF total_minutes <= MinWorkForBreak
        THEN [raised |-> FALSE, break_start |-> None, break_end |-> None]
        ELSE [raised |-> FALSE, break_start |-> mid_minutes - HalfBreak,
              break_end |-> mid_minutes + HalfBreak]

\* calculate_break_time (daily_entry.py); time(h, m) raises ValueError for
\* an hour outside 0..23
calculate_break_time(start_time, end_time) ==
    LET total_minutes == end_time - start_time
        mid_minutes == start_time + (total_minutes \div 2)
        break_start_minutes == mid_minutes - HalfBreak
        break_end_minutes == mid_minutes + HalfBreak
    IN  IF total_minutes < MinWorkForBreak
        THEN [raised |-> FALSE, break_start |-> None, break_end |-> None]
        ELSE IF break_start_minutes \div 60 \notin 0..23
                  \/ break_end_minutes \div 60 \notin 0..23
        THEN [raised |-> TRUE, break_start |-> None, break_end |-> None]
        ELSE [raised |-> FALSE, break_start |-> break_start_minutes,
              break_end |-> break_end_minutes]

(***************************************************************************)
(* Specification SpecTime: the pure time functions applied to inputs       *)
(* drawn from a grid of clock times.                                       *)
(***************************************************************************)

\* clock times (minutes since midnight) the work and break fields range over
TimeGrid == {0, 480, 481, 720, 750, 751, 765, 840, 1020, 1439}

NoOut == [fn |-> "none", raised |-> FALSE, ok |-> FALSE, error |-> "",
          hours |-> 0, deduction |-> 0, break_start |-> None,
          break_end |-> None]

TimeInputs ==
    [work_start : TimeGrid, break_start : TimeGrid \cup {None},
     break_end : TimeGrid \cup {None}, work_end : TimeGrid]

\* validate_times(work_start, break_start, break_end, work_end)
ApplyValidateTimes ==
    /\ tout.fn = "none"
    /\ LET v == validate_times(tin.work_start, tin.break_start,
                               tin.break_end, tin.work_end)
       IN  tout' = [NoOut EXCEPT !.fn = "validate_times", !.raised = v.raised,
                                 !.ok = v.ok, !.error = v.error]
    /\ UNCHANGED <<tin, ui, now, storeVars>>

\* calculate_hours(work_start, break_start, break_end, work_end)
ApplyCalculateHours ==
    /\ tout.fn = "none"
    /\ LET h == calculate_hours(tin.work_start, tin.break_start,
                                tin.break_end, tin.work_end)
       IN  tout' = [NoOut EXCEPT !.fn = "calculate_hours", !.hours = h[1],
                                 !.deduction = h[2]]
    /\ UNCHANGED <<tin, ui, now, storeVars>>

\* calculate_break_time(start_time, end_time)
ApplyCalculateBreakTime ==
    /\ tout.fn = "none"
    /\ LET b == calculate_break_time(tin.work_start, tin.work_end)
       IN  tout' = [NoOut EXCEPT !.fn = "calculate_break_time",
                                 !.raised = b.raised,
                                 !.break_start = b.break_start,
                                 !.break_end = b.break_end]
    /\ UNCHANGED <<tin, ui, now, storeVars>>

\* the suggested break given to validate_times and calculate_hours together
\* with the work times it was computed from
ApplySuggestedBreak ==
    /\ tout.fn = "calculate_break_time"
    /\ ~tout.raised
    /\ tout.break_start # None
    /\ LET v == validate_times(tin.work_start, tout.break_start,
                               tout.break_end, tin.work_end)
           h == calculate_hours(tin.work_start, tout.break_start,
                                tout.break_end, tin.work_end)
       IN  tout' = [tout EXCEPT !.fn = "suggested_break",
                                !.raised = v.raised, !.ok = v.ok,
                                !.error = v.error, !.hours = h[1],
                                !.deduction = h[2]]
    /\ UNCHANGED <<tin, ui, now, storeVars>>

(***************************************************************************)
(* The store (SQLite file) and the connections working on it               *)
(***************************************************************************)

Users == {1, 2}
Conns == {1, 2}

\* DATE('now') of the store during the run; the day before is Today - 1
Today == 2

\* longest location_ids list a caller passes to save_entry
MaxSeqLen == 2

\* cap on the active locations of one user (100 in the source, scaled so
\* that the cap is reached)
LocationLimit == 2

\* "if text:" for an Optional[str]
Truthy(text) == text # NoneText /\ text # <<>>

Range(seq) == {seq[i] : i \in 1..Len(seq)}

NoCall == [op |-> "none", user_id |-> 0, start_time |-> NoneText,
           end_time |-> NoneText, break_start |-> NoneText,
           break_end |-> NoneText, location_ids |-> <<>>, name |-> <<>>,
           entry_id |-> 0, order |-> 0, after_save |-> FALSE]

\* return None of get_todays_entry
NoEntry == [id |-> 0]

\* a browser session in which user 1 has just logged in and opened the
\* daily-entry page: none of the page's keys is in st.session_state, a
\* run of the script is due
NoUi == [page |-> "entry", logged_in |-> TRUE, user_id |-> 1,
         last_activity |-> 0,
         pc |-> "run", has_selected |-> FALSE, selected_locations |-> <<>>,
         location_input_mode |-> "new", new_loc_name |-> <<>>,
         last |-> [kind |-> "none", id |-> 0, outcome |-> "none"],
         by_rerun |-> FALSE, locations |-> <<>>, existing_entry |-> NoEntry]

IdleUi == ui = NoUi /\ now = 0

NoRes == [raised |-> FALSE, ok |-> FALSE, msg |-> "none"]
Ok(msg) == [raised |-> FALSE, ok |-> TRUE, msg |-> msg]
Fail(msg) == [raised |-> FALSE, ok |-> FALSE, msg |-> msg]
Throw(exc) == [raised |-> TRUE, ok |-> FALSE, msg |-> exc]

MsgEmptyLocations == "At least one location must be selected"
MsgInvalidLocations ==
    "One or more selected locations are inactive or do not exist"
MsgOrderUsed == "Location sequence order is already used"
MsgCheckFailed == "Invalid time values. Please check your entry"
MsgDatabaseError == "Database error"
MsgSaved == "Entry saved successfully"

\* mutant: a failed transaction keeps the statements executed so far
KeepPartial(committed, working) == working

\* conn.rollback(), and conn.close() with a transaction still open: the
\* store keeps its committed content
RolledBack(committed, working) == committed

\* the call of connection c ends with result r; closing the connection
\* gives up its locks, newdb is the committed store it leaves behind
Finish(c, r, newdb) ==
    /\ pc' = [pc EXCEPT ![c] = "returned"]
    /\ res' = [res EXCEPT ![c] = r]
    /\ UNCHANGED call
    /\ db' = newdb
    /\ writer' = IF writer = c THEN 0 ELSE writer
    /\ shared' = shared \ {c}
    /\ wdb' = IF writer = c \/ writer = 0 THEN newdb ELSE wdb

\* the caller takes the returned value (or the exception) of the call.
\* after_save of a get_todays_entry under way on another connection (see
\* there) is history of this call and ends with it.
Return(c) ==
    /\ pc[c] = "returned"
    /\ pc' = [pc EXCEPT ![c] = "idle"]
    /\ call' = [d \in Conns |->
                  IF d = c THEN NoCall
                  ELSE [call[d] EXCEPT !.after_save = FALSE]]
    /\ res' = [res EXCEPT ![c] = NoRes]
    /\ UNCHANGED <<db, wdb, writer, shared, tin, tout, ui, now>>

(***************************************************************************)
(* save_entry                                                              *)
(***************************************************************************)

\* mutant: one count per element of the list instead of one per row
CountActiveEach(locations, location_ids) ==
    Cardinality({k \in 1..Len(location_ids) :
                    /\ location_ids[k] \in 1..Len(locations)
                    /\ locations[location_ids[k]].active})

\* SELECT COUNT(*) FROM locations WHERE id IN (ids) AND active = 1
CountActiveIn(locations, location_ids) ==
    Cardinality({i \in 1..Len(locations) :
                    i \in Range(location_ids) /\ locations[i].active})

\* mutant: the emptiness test of location_ids is missing
PreCheckNoEmpty(d, a) ==
    LET work_start == parse_time(a.start_time)
        work_end == parse_time(a.end_time)
        v == validate_times(
                 work_start,
                 IF Truthy(a.break_start) THEN parse_time(a.break_start)
                                          ELSE None,
                 IF Truthy(a.break_end) THEN parse_time(a.break_end)
                                        ELSE None,
                 work_end)
    IN  IF TypeError \in {work_start, work_end} THEN Throw("TypeError")
        ELSE IF v.raised THEN Throw(v.error)
        ELSE IF ~v.ok THEN Fail(v.error)
        ELSE IF CountActiveIn(d.locations, a.location_ids)
                    # Len(a.location_ids)
             THEN Fail(MsgInvalidLocations)
        ELSE Ok("BEGIN")

\* save_entry up to BEGIN TRANSACTION: the value returned (or raised)
\* before the transaction, Ok("BEGIN") when the transaction is started.
\* A TypeError of parse_time or of validate_times goes to the caller.
PreCheck(d, a) ==
    LET work_start == parse_time(a.start_time)
        work_end == parse_time(a.end_time)
        v == validate_times(
                 work_start,
                 IF Truthy(a.break_start) THEN parse_time(a.break_start)
                                          ELSE None,
                 IF Truthy(a.break_end) THEN parse_time(a.break_end)
                                        ELSE None,
                 work_end)
    IN  IF TypeError \in {work_start, work_end} THEN Throw("TypeError")
        ELSE IF v.raised THEN Throw(v.error)
        ELSE IF ~v.ok THEN Fail(v.error)
        ELSE IF a.location_ids = <<>> THEN Fail(MsgEmptyLocations)
        ELSE IF CountActiveIn(d.locations, a.location_ids)
                    # Len(a.location_ids)
             THEN Fail(MsgInvalidLocations)
        ELSE Ok("BEGIN")

\* rows of daily_entries with this user and date (UNIQUE(user_id, entry_date))
EntryIds(entries, u, day) ==
    {i \in 1..Len(entries) :
        entries[i].user_id = u /\ entries[i].entry_date = day}

EntryRow(a) ==
    [user_id |-> a.user_id, entry_date |-> Today,
     start_time |-> a.start_time, end_time |-> a.end_time,
     break_start |-> a.break_start, break_end |-> a.break_end]

\* mutant: plain INSERT without the ON CONFLICT clause
InsertAlways(entries, a) == Append(entries, EntryRow(a))

\* INSERT INTO daily_entries ... ON CONFLICT(user_id, entry_date) DO UPDATE
UpsertEntry(entries, a) ==
    LET hit == EntryIds(entries, a.user_id, Today)
    IN  IF hit = {} THEN Append(entries, EntryRow(a))
        ELSE [i \in 1..Len(entries) |->
                 IF i \in hit THEN EntryRow(a) ELSE entries[i]]

\* RETURNING id
ReturnedId(entries, a) ==
    CHOOSE i \in EntryIds(entries, a.user_id, Today) : TRUE

\* mutant: every sequence is deleted, whatever its entry
DeleteEverySequence(rows, entry_id) == {}

\* DELETE FROM daily_locations WHERE entry_id = ?
DeleteSequence(rows, entry_id) == {r \in rows : r.entry_id # entry_id}

\* mutant: 0-based enumerate
SequenceRowZeroBased(entry_id, location_ids, order) ==
    [entry_id |-> entry_id, location_id |-> location_ids[order],
     sequence_order |-> order - 1]

\* the row inserted for enumerate(location_ids, 1)
SequenceRow(entry_id, location_ids, order) ==
    [entry_id |-> entry_id, location_id |-> location_ids[order],
     sequence_order |-> order]

\* UNIQUE(entry_id, sequence_order)
OrderTaken(rows, row) ==
    \E r \in rows : r.entry_id = row.entry_id
                    /\ r.sequence_order = row.sequence_order

\* the caller's call: arguments are bound
SaveEntryCall(c, u, st, et, bs, be, ids) ==
    /\ pc[c] = "idle"
    /\ pc' = [pc EXCEPT ![c] = "save_entry"]
    /\ call' = [call EXCEPT ![c] =
                  [NoCall EXCEPT !.op = "save_entry", !.user_id = u,
                      !.start_time = st, !.end_time = et,
                      !.break_start = bs, !.break_end = be,
                      !.location_ids = ids]]
    /\ UNCHANGED <<db, wdb, writer, shared, res, tin, tout, ui, now>>

\* validation, the location check and BEGIN TRANSACTION
SaveEntryBegin(c) ==
    /\ pc[c] = "save_entry"
    /\ LET r == PreCheck(db, call[c])
       IN  IF r.ok
           THEN /\ pc' = [pc EXCEPT ![c] = "upsert"]
                /\ UNCHANGED <<db, wdb, writer, shared, call, res>>
           ELSE Finish(c, r, db)
    /\ UNCHANGED <<tin, tout, ui, now>>

\* mutant: the upsert never finds the store locked
NeverLocked(c) == FALSE

\* the first write of a transaction finds the write lock held by another
\* connection (sqlite3.OperationalError: database is locked)
WriteLocked(c) == writer \notin {0, c}

\* the upsert takes the write lock; "database is locked" when another
\* connection holds it
SaveEntryUpsert(c) ==
    /\ pc[c] = "upsert"
    /\ IF WriteLocked(c)
       THEN Finish(c, Fail(MsgDatabaseError), RolledBack(db, wdb))
       ELSE LET entries == UpsertEntry(db.daily_entries, call[c])
            IN  /\ writer' = c
                /\ wdb' = [db EXCEPT !.daily_entries = entries]
                /\ call' = [call EXCEPT ![c].entry_id =
                                            ReturnedId(entries, call[c])]
                /\ pc' = [pc EXCEPT ![c] = "delete"]
                /\ UNCHANGED <<db, shared, res>>
    /\ UNCHANGED <<tin, tout, ui, now>>

SaveEntryDelete(c) ==
    /\ pc[c] = "delete"
    /\ wdb' = [wdb EXCEPT !.daily_locations =
                  DeleteSequence(wdb.daily_locations, call[c].entry_id)]
    /\ call' = [call EXCEPT ![c].order = 1]
    /\ pc' = [pc EXCEPT ![c] = "insert"]
    /\ UNCHANGED <<db, writer, shared, res, tin, tout, ui, now>>

\* one turn of the insert loop
SaveEntryInsert(c) ==
    /\ pc[c] = "insert"
    /\ call[c].order <= Len(call[c].location_ids)
    /\ LET row == SequenceRow(call[c].entry_id, call[c].location_ids,
                              call[c].order)
       IN  IF OrderTaken(wdb.daily_locations, row)
           THEN Finish(c, Fail(MsgOrderUsed), RolledBack(db, wdb))
           ELSE /\ wdb' = [wdb EXCEPT !.daily_locations = @ \cup {row}]
                /\ call' = [call EXCEPT ![c].order = @ + 1]
                /\ UNCHANGED <<db, writer, shared, pc, res>>
    /\ UNCHANGED <<tin, tout, ui, now>>

\* conn.commit(): "database is locked" while another connection reads
\* inside a transaction
SaveEntryCommit(c) ==
    /\ pc[c] = "insert"
    /\ call[c].order > Len(call[c].location_ids)
    /\ IF shared \ {c} # {}
       THEN Finish(c, Fail(MsgDatabaseError), RolledBack(db, wdb))
       ELSE Finish(c, Ok(MsgSaved), wdb)
    /\ UNCHANGED <<tin, tout, ui, now>>

\* a statement of the open transaction fails.  sqlite3.IntegrityError with
\* "CHECK constraint failed" on the upsert, the DELETE or an INSERT of the
\* loop: the call returns the message about the time values.
\* sqlite3.IntegrityError with "UNIQUE constraint failed" on an INSERT of
\* the loop: the call returns the message about the sequence order; on the
\* upsert or the DELETE it is re-raised like any other sqlite3.Error
\* (rollback, "Database error").  The connection is closed in every case.
\* The constraints of the tables are not part of the source, so a
\* violation is an outcome the store may produce.
SaveEntryFault(c, kind) ==
    /\ pc[c] \in {"upsert", "delete", "insert"}
    /\ Finish(c, IF kind = "check" THEN Fail(MsgCheckFailed)
                 ELSE IF kind = "unique" /\ pc[c] = "insert"
                         /\ call[c].order <= Len(call[c].location_ids)
                 THEN Fail(MsgOrderUsed)
                 ELSE Fail(MsgDatabaseError),
              RolledBack(db, wdb))
    /\ UNCHANGED <<tin, tout, ui, now>>

(***************************************************************************)
(* get_todays_entry and the "Today's Entry" display of the page            *)
(***************************************************************************)

\* rows in ORDER BY dl.sequence_order
OrderBySequence(rows) ==
    CHOOSE s \in [1..Cardinality(rows) -> rows] :
        /\ \A i, j \in 1..Cardinality(rows) : i # j => s[i] # s[j]
        /\ \A i, j \in 1..Cardinality(rows) :
              i < j => s[i].sequence_order <= s[j].sequence_order

\* the first SELECT of get_todays_entry on store d: today's row of the
\* user in daily_entries, None without one
SelectTodaysEntry(d, user_id) ==
    LET ids == EntryIds(d.daily_entries, user_id, Today)
    IN  IF ids = {} THEN NoEntry
        ELSE LET id == CHOOSE i \in ids : TRUE
             IN  [id |-> id,
                  start_time |-> d.daily_entries[id].start_time,
                  end_time |-> d.daily_entries[id].end_time]

\* the second SELECT on store d: the sequence rows of the entry joined
\* with their locations, by sequence_order
SelectEntryLocations(d, entry_id) ==
    LET joined == {r \in d.daily_locations :
                      /\ r.entry_id = entry_id
                      /\ r.location_id \in 1..Len(d.locations)}
        rows == OrderBySequence(joined)
    IN  [i \in 1..Cardinality(joined) |->
            [id |-> rows[i].location_id,
             name |-> d.locations[rows[i].location_id].name,
             sequence_order |-> rows[i].sequence_order]]

\* the returned dict: the keys id, start_time, end_time and locations
EntryDict(entry, locations) ==
    [id |-> entry.id, start_time |-> entry.start_time,
     end_time |-> entry.end_time, locations |-> locations]

\* get_todays_entry(user_id) when no other connection commits between its
\* two SELECTs
get_todays_entry(d, user_id) ==
    LET entry == SelectTodaysEntry(d, user_id)
    IN  IF entry = NoEntry THEN NoEntry
        ELSE EntryDict(entry, SelectEntryLocations(d, entry.id))

\* dict.get(key): None for a key the dict does not have
DictGet(dict, key) == IF key \in DOMAIN dict THEN dict[key] ELSE NoneText

\* the hours shown under "Today's Entry": <<hundredths, deduction>>
DisplayedHours(existing_entry) ==
    calculate_hours(
        parse_time(existing_entry.start_time),
        IF Truthy(DictGet(existing_entry, "break_start"))
        THEN parse_time(DictGet(existing_entry, "break_start")) ELSE None,
        IF Truthy(DictGet(existing_entry, "break_end"))
        THEN parse_time(DictGet(existing_entry, "break_end")) ELSE None,
        parse_time(existing_entry.end_time))

\* a call of get_todays_entry on its own connection, first SELECT: the
\* statement runs in autocommit mode, so no lock is held after it and
\* another connection can commit before the second SELECT.  after_save
\* records for the properties that the call started when a successful
\* save_entry of the same user on the other connection had returned, and
\* that the caller of that save_entry has made no further call since.
GetTodaysEntrySelect(c, u) ==
    /\ pc[c] = "idle"
    /\ LET entry == SelectTodaysEntry(db, u)
           after == \E d \in Conns \ {c} :
                       /\ pc[d] = "returned" /\ call[d].op = "save_entry"
                       /\ call[d].user_id = u /\ res[d].ok
       IN  IF entry = NoEntry
           THEN /\ pc' = [pc EXCEPT ![c] = "returned"]
                /\ call' = [call EXCEPT ![c] =
                              [NoCall EXCEPT !.op = "get_todays_entry",
                                             !.user_id = u,
                                             !.after_save = after]]
                /\ res' = [res EXCEPT ![c] =
                             [raised |-> FALSE, ok |-> TRUE, msg |-> "entry",
                              entry |-> NoEntry]]
           ELSE /\ pc' = [pc EXCEPT ![c] = "entry_locations"]
                /\ call' = [call EXCEPT ![c] =
                              [NoCall EXCEPT !.op = "get_todays_entry",
                                             !.user_id = u,
                                             !.entry_id = entry.id,
                                             !.start_time = entry.start_time,
                                             !.end_time = entry.end_time,
                                             !.after_save = after]]
                /\ UNCHANGED res
    /\ UNCHANGED <<db, wdb, writer, shared, tin, tout, ui, now>>

\* second SELECT and the return of the dict
GetTodaysEntryLocations(c) ==
    /\ pc[c] = "entry_locations"
    /\ pc' = [pc EXCEPT ![c] = "returned"]
    /\ res' = [res EXCEPT ![c] =
                 [raised |-> FALSE, ok |-> TRUE, msg |-> "entry",
                  entry |-> EntryDict([id |-> call[c].entry_id,
                                       start_time |-> call[c].start_time,
                                       end_time |-> call[c].end_time],
                                      SelectEntryLocations(db,
                                                           call[c].entry_id))]]
    /\ UNCHANGED <<db, wdb, writer, shared, call, tin, tout, ui, now>>

(***************************************************************************)
(* Specification Spec: save_entry calls of one connection on a store that  *)
(* already holds locations and an entry of the day before, while a second  *)
(* connection reads today's entries.                                       *)
(***************************************************************************)

T0800 == <<"0", "8", ":", "0", "0">>
T1200 == <<"1", "2", ":", "0", "0">>
T1245 == <<"1", "2", ":", "4", "5">>
T1700 == <<"1", "7", ":", "0", "0">>
\* texts only a direct caller of save_entry passes: an hour of one digit
\* and a digit outside ASCII (strptime takes both), a text that is no
\* time, minutes out of range
T900 == <<"9", ":", "0", "0">>
T13x == <<"1", "U+0663", ":", "0", "0">>
TJunk == <<"a", "b", "c">>
T0999 == <<"0", "9", ":", "9", "9">>
T1099 == <<"1", "0", ":", "9", "9">>

\* <<start_time, end_time, break_start, break_end>> as submitted
TimeArgs ==
    { <<T0800, T1700, NoneText, NoneText>>,
      <<T900, T1700, T1200, T1245>>,
      <<T0800, T1700, T0999, T1099>>,
      <<T1700, T0800, NoneText, NoneText>>,
      <<T0800, T1700, T1200, NoneText>>,
      <<T900, T1700, T0800, T1200>>,
      <<TJunk, T1700, NoneText, NoneText>>,
      <<T13x, T1700, NoneText, NoneText>>,
      <<NoneText, T1700, NoneText, NoneText>> }

\* location 1: active, of user 1; location 2: active, of user 2;
\* location 3: soft-deleted, of user 1
SeedLocations ==
    << [user_id |-> 1, name |-> <<"K">>, active |-> TRUE],
       [user_id |-> 2, name |-> <<"k">>, active |-> TRUE],
       [user_id |-> 1, name |-> <<"S">>, active |-> FALSE] >>

\* user 1's entry of the day before, with its one-row sequence
SeedDb ==
    [locations |-> SeedLocations,
     daily_entries |->
        << [user_id |-> 1, entry_date |-> Today - 1, start_time |-> T0800,
            end_time |-> T1700, break_start |-> NoneText,
            break_end |-> NoneText] >>,
     daily_locations |->
        { [entry_id |-> 1, location_id |-> 1, sequence_order |-> 1] }]

\* ids a caller may pass: those of the table and one that does not exist
LocationIdsOf(d) ==
    UNION {[1..n -> 1..(Len(d.locations) + 1)] : n \in 0..MaxSeqLen}

\* <<user_id, times, location_ids>> of the calls: the first user with
\* every time tuple and every list, the second user with plain work times
\* and the lists of at most one id
SaveArgs(d) ==
    ({1} \X TimeArgs \X LocationIdsOf(d))
    \cup ({2} \X { <<T0800, T1700, NoneText, NoneText>> }
              \X {ids \in LocationIdsOf(d) : Len(ids) <= 1})

InitStore(d) ==
    /\ db = d
    /\ wdb = d
    /\ writer = 0
    /\ shared = {}
    /\ pc = [c \in Conns |-> "idle"]
    /\ call = [c \in Conns |-> NoCall]
    /\ res = [c \in Conns |-> NoRes]

IdleTime ==
    /\ tin = [work_start |-> 0, break_start |-> None, break_end |-> None,
              work_end |-> 0]
    /\ tout = NoOut

Init == InitStore(SeedDb) /\ IdleTime /\ IdleUi

Next ==
    \/ /\ pc[1] = "idle"
       /\ \E a \in SaveArgs(db) :
             SaveEntryCall(1, a[1], a[2][1], a[2][2], a[2][3], a[2][4], a[3])
    \/ SaveEntryBegin(1)
    \/ SaveEntryUpsert(1)
    \/ SaveEntryDelete(1)
    \/ SaveEntryInsert(1)
    \/ SaveEntryCommit(1)
    \/ \E kind \in {"check", "unique", "error"} : SaveEntryFault(1, kind)
    \/ Return(1)
    \* the entry is read on a second connection, at any time
    \/ \E u \in Users : GetTodaysEntrySelect(2, u)
    \/ GetTodaysEntryLocations(2)
    \/ Return(2)

Spec == Init /\ [][Next]_vars

InitTime ==
    /\ tin \in TimeInputs
    /\ tout = NoOut
    /\ InitStore(SeedDb)
    /\ IdleUi

NextTime ==
    \/ ApplyValidateTimes
    \/ ApplyCalculateHours
    \/ ApplyCalculateBreakTime
    \/ ApplySuggestedBreak

SpecTime == InitTime /\ [][NextTime]_vars

(***************************************************************************)
(* add_location                                                            *)
(***************************************************************************)

\* characters of the modelled names: ASCII letters, letters outside ASCII,
\* the blank, and a character that is not on the allow-list
AsciiUpper == {"K"}
AsciiLower == {"k"}
OtherUpper == {"É"}
OtherLower == {"é"}
Letters == AsciiUpper \cup AsciiLower \cup OtherUpper \cup OtherLower

\* c.isalnum() or c in ' -_.,()#'
Allowed(c) ==
    c \in Letters \cup DigitChars
          \cup {" ", "-", "_", ".", ",", "(", ")", "#"}

RECURSIVE Filter(_)
Filter(text) ==
    IF text = <<>> THEN <<>>
    ELSE IF Allowed(Head(text)) THEN <<Head(text)>> \o Filter(Tail(text))
    ELSE Filter(Tail(text))

RECURSIVE LStrip(_)
LStrip(text) ==
    IF text # <<>> /\ Head(text) = " " THEN LStrip(Tail(text)) ELSE text

RECURSIVE RStrip(_)
RStrip(text) ==
    IF text # <<>> /\ text[Len(text)] = " "
    THEN RStrip(SubSeq(text, 1, Len(text) - 1))
    ELSE text

\* sanitize_input(text, max_length): allow-list filter, cut, strip
sanitize_input(text, max_length) ==
    IF text = <<>> \/ text = NoneText THEN <<>>
    ELSE LET sanitized == Filter(text)
             cut == SubSeq(sanitized, 1, IF Len(sanitized) < max_length
                                         THEN Len(sanitized)
                                         ELSE max_length)
         IN  RStrip(LStrip(cut))

\* max_length of a location name
NameMaxLength == 50

\* SQLite's LOWER(): only the ASCII letters are folded
SqlLower(text) ==
    [i \in 1..Len(text) |-> IF text[i] = "K" THEN "k" ELSE text[i]]

\* Python's str.lower(): every cased letter is folded
PyLower(text) ==
    [i \in 1..Len(text) |->
        IF text[i] = "K" THEN "k" ELSE IF text[i] = "É" THEN "é" ELSE text[i]]

\* SELECT id FROM locations WHERE user_id = ? AND LOWER(name) = LOWER(?)
\*                                AND active = 1
NameTaken(locations, u, name) ==
    \E i \in 1..Len(locations) :
        /\ locations[i].user_id = u
        /\ locations[i].active
        /\ SqlLower(locations[i].name) = SqlLower(name)

\* SELECT COUNT(*) FROM locations WHERE user_id = ? AND active = 1
ActiveCount(locations, u) ==
    Cardinality({i \in 1..Len(locations) :
                    locations[i].user_id = u /\ locations[i].active})

\* mutant: the cap is tested with > instead of >=
LimitExceeded(locations, u) == ActiveCount(locations, u) > LocationLimit

\* fetchone()[0] >= 100
LimitReached(locations, u) == ActiveCount(locations, u) >= LocationLimit

MsgEmptyName == "Location name cannot be empty"
MsgNoValidChars == "Location name contains no valid characters"
MsgExists == "Location already exists"
MsgLimit == "Maximum number of locations reached"
MsgAdded == "Location added successfully"
MsgConstraint == "Database constraint violation"

\* the caller's call: arguments are bound
AddLocationCall(c, u, name) ==
    /\ pc[c] = "idle"
    /\ pc' = [pc EXCEPT ![c] = "add_location"]
    /\ call' = [call EXCEPT ![c] =
                  [NoCall EXCEPT !.op = "add_location", !.user_id = u,
                                 !.name = name]]
    /\ UNCHANGED <<db, wdb, writer, shared, res, tin, tout, ui, now>>

\* input validation, BEGIN TRANSACTION and the two SELECTs; the SELECTs
\* read the committed store and leave the connection with a SHARED lock
AddLocationCheck(c) ==
    /\ pc[c] = "add_location"
    /\ LET name == sanitize_input(call[c].name, NameMaxLength)
       IN  IF call[c].name = <<>> THEN Finish(c, Fail(MsgEmptyName), db)
           ELSE IF name = <<>> THEN Finish(c, Fail(MsgNoValidChars), db)
           ELSE IF NameTaken(db.locations, call[c].user_id, name)
                THEN Finish(c, Fail(MsgExists), db)
           ELSE IF LimitReached(db.locations, call[c].user_id)
                THEN Finish(c, Fail(MsgLimit), db)
           ELSE /\ call' = [call EXCEPT ![c].name = name]
                /\ shared' = shared \cup {c}
                /\ pc' = [pc EXCEPT ![c] = "insert_location"]
                /\ UNCHANGED <<db, wdb, writer, res>>
    /\ UNCHANGED <<tin, tout, ui, now>>

\* INSERT INTO locations: takes the write lock; "database is locked" when
\* another connection holds it
AddLocationInsert(c) ==
    /\ pc[c] = "insert_location"
    /\ IF writer \notin {0, c}
       THEN Finish(c, Fail(MsgDatabaseError), RolledBack(db, wdb))
       ELSE /\ writer' = c
            /\ wdb' = [db EXCEPT !.locations =
                          Append(@, [user_id |-> call[c].user_id,
                                     name |-> call[c].name,
                                     active |-> TRUE])]
            /\ pc' = [pc EXCEPT ![c] = "commit_location"]
            /\ UNCHANGED <<db, shared, call, res>>
    /\ UNCHANGED <<tin, tout, ui, now>>

\* conn.commit(): "database is locked" while another connection reads
\* inside a transaction
AddLocationCommit(c) ==
    /\ pc[c] = "commit_location"
    /\ IF shared \ {c} # {}
       THEN Finish(c, Fail(MsgDatabaseError), RolledBack(db, wdb))
       ELSE Finish(c, Ok(MsgAdded), wdb)
    /\ UNCHANGED <<tin, tout, ui, now>>

\* a statement of the open transaction fails: sqlite3.IntegrityError
\* (a constraint of the locations table, which is not part of the source)
\* or any other sqlite3.Error; both handlers roll back
AddLocationFault(c, kind) ==
    /\ pc[c] \in {"insert_location", "commit_location"}
    /\ Finish(c, IF kind = "integrity" THEN Fail(MsgConstraint)
                                       ELSE Fail(MsgDatabaseError),
              RolledBack(db, wdb))
    /\ UNCHANGED <<tin, tout, ui, now>>

(***************************************************************************)
(* Specification SpecLoc: add_location calls of two connections on a store *)
(* without locations.                                                      *)
(***************************************************************************)

\* names as typed by the caller
RawNames ==
    { <<"K">>, <<"k">>, <<"É">>, <<"é">>, <<>>, <<"!">>, <<" ", "K", "!">> }

\* <<user_id, name>> of the calls: the first user under every name, the
\* second under names the first one uses too
LocArgs ==
    ({1} \X RawNames) \cup ({2} \X { <<"k">>, <<"É">> })

EmptyDb == [locations |-> <<>>, daily_entries |-> <<>>,
            daily_locations |-> {}]

InitLoc == InitStore(EmptyDb) /\ IdleTime /\ IdleUi

NextLoc ==
    \E c \in Conns :
        \/ \E a \in LocArgs : AddLocationCall(c, a[1], a[2])
        \/ AddLocationCheck(c)
        \/ AddLocationInsert(c)
        \/ AddLocationCommit(c)
        \/ \E kind \in {"integrity", "error"} : AddLocationFault(c, kind)
        \/ Return(c)

SpecLoc == InitLoc /\ [][NextLoc]_vars

(***************************************************************************)
(* Specification SpecConc: save_entry calls of two connections on the      *)
(* seeded store.  A call starts while the other connection is idle or      *)
(* inside a call, so that the results held by the two callers are those of *)
(* the last call of each connection.                                       *)
(***************************************************************************)

TBad == <<T1700, T0800, NoneText, NoneText>>

\* times and location lists of the calls
ConcArgs ==
    { <<<<T0800, T1700, NoneText, NoneText>>, <<1>>>>,
      <<<<T900, T1700, T1200, T1245>>, <<2, 1>>>>,
      <<<<T0800, T1700, NoneText, NoneText>>, <<2>>>>,
      <<TBad, <<1>>>> }

InitConc == InitStore(SeedDb) /\ IdleTime /\ IdleUi

NextConc ==
    \E c \in Conns :
        \/ \E u \in Users, a \in ConcArgs, d \in Conns \ {c} :
              /\ pc[d] # "returned"
              /\ SaveEntryCall(c, u, a[1][1], a[1][2], a[1][3], a[1][4],
                               a[2])
        \/ SaveEntryBegin(c)
        \/ SaveEntryUpsert(c)
        \/ SaveEntryDelete(c)
        \/ SaveEntryInsert(c)
        \/ SaveEntryCommit(c)
        \/ \E kind \in {"check", "unique", "error"} : SaveEntryFault(c, kind)
        \/ Return(c)

SpecConc == InitConc /\ [][NextConc]_vars

(***************************************************************************)
(* The daily-entry page (main of daily_entry.py): one browser session of   *)
(* one logged-in user.  A run of the script reads the locations and        *)
(* today's entry in three statements, between which other sessions can     *)
(* commit, and then goes through the widgets; a run which calls            *)
(* add_location or save_entry waits for the call, whose steps are those    *)
(* above on connection 1.                                                  *)
(***************************************************************************)

\* code point of a character that a sanitized name can hold
CodePoint(ch) ==
    CASE ch = " " -> 32 [] ch = "#" -> 35 [] ch = "(" -> 40 [] ch = ")" -> 41
      [] ch = "," -> 44 [] ch = "-" -> 45 [] ch = "." -> 46
      [] ch \in AsciiDigits -> 48 + DigitVal(ch)
      [] ch = "K" -> 75 [] ch = "_" -> 95 [] ch = "k" -> 107
      [] ch = "É" -> 201 [] ch = "é" -> 233 [] ch = "U+0663" -> 1635

\* a <= b in SQLite's BINARY collation (ORDER BY name)
RECURSIVE NameLeq(_, _)
NameLeq(a, b) ==
    IF a = <<>> THEN TRUE
    ELSE IF b = <<>> THEN FALSE
    ELSE IF Head(a) = Head(b) THEN NameLeq(Tail(a), Tail(b))
    ELSE CodePoint(Head(a)) < CodePoint(Head(b))

\* get_user_locations(user_id): the user's active locations by name
get_user_locations(d, user_id) ==
    LET ids == {i \in 1..Len(d.locations) :
                   d.locations[i].user_id = user_id /\ d.locations[i].active}
        order == CHOOSE s \in [1..Cardinality(ids) -> ids] :
                    /\ \A i, j \in 1..Cardinality(ids) : i # j => s[i] # s[j]
                    /\ \A i, j \in 1..Cardinality(ids) :
                          i < j => NameLeq(d.locations[s[i]].name,
                                           d.locations[s[j]].name)
    IN  [i \in 1..Cardinality(ids) |->
            [id |-> order[i], name |-> d.locations[order[i]].name]]

\* ids of a list of location dicts
IdsOf(locations) == {locations[i].id : i \in 1..Len(locations)}

\* st.session_state.user_id
UiUser == ui.user_id

\* daily_entry.main goes past its first lines
EntryAllowed == ui.page = "entry" /\ ui.logged_in

\* a run of the script ends: its locals are gone, the session state stays
EndRun(s, next) ==
    [s EXCEPT !.pc = next, !.by_rerun = FALSE, !.locations = <<>>,
              !.existing_entry = NoEntry]

\* a run of the script starts, by a rerun, a refresh or a click, and reads
\* the locations; the function opens and closes a connection of its own
UiGetUserLocations ==
    /\ ui.pc \in {"run", "ready"}
    /\ EntryAllowed
    /\ ui' = [ui EXCEPT !.pc = "select_entry",
                        !.by_rerun = (ui.pc = "run"),
                        !.locations = get_user_locations(db, UiUser)]
    /\ UNCHANGED <<storeVars, tin, tout, now>>

\* get_todays_entry of the run, first SELECT
UiSelectTodaysEntry ==
    /\ ui.pc = "select_entry"
    /\ LET entry == SelectTodaysEntry(db, UiUser)
       IN  ui' = [ui EXCEPT !.existing_entry = entry,
                            !.pc = IF entry = NoEntry THEN "script"
                                   ELSE "select_locations"]
    /\ UNCHANGED <<storeVars, tin, tout, now>>

\* get_todays_entry of the run, second SELECT
UiSelectEntryLocations ==
    /\ ui.pc = "select_locations"
    /\ ui' = [ui EXCEPT
                !.existing_entry =
                    EntryDict(@, SelectEntryLocations(db, @.id)),
                !.pc = "script"]
    /\ UNCHANGED <<storeVars, tin, tout, now>>

\* the script down to the location widgets: selected_locations is created
\* from today's entry when the session does not have it yet
Opened(s) ==
    IF s.has_selected THEN s
    ELSE [s EXCEPT
            !.has_selected = TRUE,
            !.selected_locations =
                IF s.existing_entry # NoEntry
                      /\ s.existing_entry.locations # <<>>
                THEN [i \in 1..Len(s.existing_entry.locations) |->
                         s.existing_entry.locations[i].id]
                ELSE <<>>]

\* mutant: the selected ids are left as they are
PurgeNothing(selected, locations) == selected

\* "Clear invalid location IDs": only ids of the locations read by the run
\* stay, in their order
Purge(selected, locations) ==
    LET Valid(id) == id \in IdsOf(locations)
    IN  IF selected = <<>> THEN selected ELSE SelectSeq(selected, Valid)

\* mutant: the last element is removed
ListRemoveLast(list, x) == SubSeq(list, 1, Len(list) - 1)

\* list.remove(x) for x in list: the first occurrence is removed
ListRemove(list, x) ==
    LET k == CHOOSE i \in 1..Len(list) :
                 list[i] = x /\ \A j \in 1..(i - 1) : list[j] # x
    IN  SubSeq(list, 1, k - 1) \o SubSeq(list, k + 1, Len(list))

\* mutant: no id is taken for selected
NeverInSequence(selected, id) == FALSE

\* location['id'] in st.session_state.selected_locations
InSequence(selected, id) == id \in Range(selected)

Event(kind, id, outcome) == [kind |-> kind, id |-> id, outcome |-> outcome]

\* the rest of a run without a click: the first run of a session, a rerun,
\* a refresh
UiPlainRun ==
    /\ ui.pc = "script"
    /\ LET o == Opened(ui)
       IN  ui' = EndRun([o EXCEPT
                           !.selected_locations =
                               Purge(o.selected_locations, ui.locations),
                           !.last = Event("run", 0, "shown")],
                        "ready")
    /\ UNCHANGED <<storeVars, tin, tout, now>>

\* the rest of the run started by moving the radio button to the other
\* mode
UiSwitchMode ==
    /\ ui.pc = "script"
    /\ ~ui.by_rerun
    /\ LET o == Opened(ui)
       IN  ui' = EndRun([o EXCEPT
                           !.location_input_mode =
                               IF @ = "new" THEN "existing" ELSE "new",
                           !.selected_locations =
                               Purge(o.selected_locations, ui.locations),
                           !.last = Event("mode", 0, "shown")],
                        "ready")
    /\ UNCHANGED <<storeVars, tin, tout, now>>

\* "Add Location" with the typed name: nothing for an empty name; a name
\* one of the listed locations has (str.lower) switches to the existing
\* mode and reruns; otherwise add_location is called
UiAddNew(name) ==
    /\ ui.pc = "script"
    /\ ~ui.by_rerun
    /\ ui.location_input_mode = "new"
    /\ LET o == [Opened(ui) EXCEPT !.new_loc_name = name]
           locations == ui.locations
       IN  IF name = <<>>
           THEN /\ ui' = EndRun([o EXCEPT
                                   !.selected_locations =
                                       Purge(o.selected_locations, locations),
                                   !.last = Event("add_new", 0, "ignored")],
                                "ready")
                /\ UNCHANGED storeVars
           ELSE IF \E i \in 1..Len(locations) :
                      PyLower(locations[i].name) = PyLower(name)
           THEN /\ ui' = EndRun([o EXCEPT
                                   !.location_input_mode = "existing",
                                   !.last = Event("add_new", 0, "exists")],
                                "run")
                /\ UNCHANGED storeVars
           ELSE /\ ui' = [o EXCEPT !.pc = "add_location",
                                   !.last = Event("add_new", 0, "calling")]
                /\ pc[1] = "idle"
                /\ pc' = [pc EXCEPT ![1] = "add_location"]
                /\ call' = [call EXCEPT ![1] =
                              [NoCall EXCEPT !.op = "add_location",
                                             !.user_id = UiUser,
                                             !.name = name]]
                /\ UNCHANGED <<db, wdb, writer, shared, res>>
    /\ UNCHANGED <<tin, tout, now>>

\* add_location has returned: on success the locations are read again,
\* the first one with the typed name (str.lower) is appended and the
\* script reruns; next() without a default raises StopIteration when no
\* location has the typed name; on failure the message is shown and the
\* script goes on with the locations it read at its start
UiAfterAddLocation ==
    /\ ui.pc = "add_location"
    /\ pc[1] = "returned"
    /\ pc' = [pc EXCEPT ![1] = "idle"]
    /\ call' = [call EXCEPT ![1] = NoCall]
    /\ res' = [res EXCEPT ![1] = NoRes]
    /\ LET locations == get_user_locations(db, UiUser)
           found == {i \in 1..Len(locations) :
                        PyLower(locations[i].name) = PyLower(ui.new_loc_name)}
       IN  IF ~res[1].ok
           THEN ui' = EndRun([ui EXCEPT
                                !.selected_locations =
                                    Purge(@, ui.locations),
                                !.last = Event("add_new", 0, "error")],
                             "ready")
           ELSE IF found = {}
           THEN ui' = EndRun([ui EXCEPT
                                !.last = Event("add_new", 0,
                                               "StopIteration")],
                             "ready")
           ELSE LET new_loc ==
                        locations[CHOOSE i \in found :
                                     \A j \in found : i <= j]
                IN  ui' = EndRun([ui EXCEPT
                                    !.selected_locations =
                                        Append(@, new_loc.id),
                                    !.last = Event("add_new", new_loc.id,
                                                   "appended")],
                                 "run")
    /\ UNCHANGED <<db, wdb, writer, shared, tin, tout, now>>

\* "Add to Sequence" with the location chosen in the select box
UiAddToSequence(id) ==
    /\ ui.pc = "script"
    /\ ~ui.by_rerun
    /\ ui.location_input_mode = "existing"
    /\ id \in IdsOf(ui.locations)
    /\ LET o == Opened(ui)
       IN  IF ~InSequence(o.selected_locations, id)
           THEN ui' = EndRun([o EXCEPT
                                !.selected_locations = Append(@, id),
                                !.last = Event("add_to_sequence", id,
                                               "appended")],
                             "run")
           ELSE ui' = EndRun([o EXCEPT
                                !.selected_locations =
                                    Purge(@, ui.locations),
                                !.last = Event("add_to_sequence", id,
                                               "already")],
                             "ready")
    /\ UNCHANGED <<storeVars, tin, tout, now>>

\* the rest of the run started by a click on the "Remove" button of
\* location id: the script shows one button for each of the selected
\* locations that are left after the purge, and removes the id from them
UiRemove(id) ==
    /\ ui.pc = "script"
    /\ ~ui.by_rerun
    /\ LET o == Opened(ui)
           shown == Purge(o.selected_locations, ui.locations)
       IN  /\ id \in Range(shown)
           /\ ui' = EndRun([o EXCEPT
                              !.selected_locations = ListRemove(shown, id),
                              !.last = Event("remove", id, "removed")],
                           "run")
    /\ UNCHANGED <<storeVars, tin, tout, now>>

\* "Save Entry": the times of the four time inputs as %H:%M texts and the
\* selected locations go to save_entry
UiSave(start_time, end_time, break_start, break_end) ==
    /\ ui.pc = "script"
    /\ ~ui.by_rerun
    /\ pc[1] = "idle"
    /\ LET o == Opened(ui)
           shown == Purge(o.selected_locations, ui.locations)
       IN  /\ ui' = [o EXCEPT !.pc = "save_entry",
                              !.selected_locations = shown,
                              !.last = Event("save", 0, "calling")]
           /\ call' = [call EXCEPT ![1] =
                         [NoCall EXCEPT
                            !.op = "save_entry", !.user_id = UiUser,
                            !.start_time = strftime(start_time),
                            !.end_time = strftime(end_time),
                            !.break_start = strftime(break_start),
                            !.break_end = strftime(break_end),
                            !.location_ids = shown]]
    /\ pc' = [pc EXCEPT ![1] = "save_entry"]
    /\ UNCHANGED <<db, wdb, writer, shared, res, tin, tout, now>>

\* save_entry has returned: rerun on success, the message otherwise
UiAfterSave ==
    /\ ui.pc = "save_entry"
    /\ pc[1] = "returned"
    /\ pc' = [pc EXCEPT ![1] = "idle"]
    /\ call' = [call EXCEPT ![1] = NoCall]
    /\ res' = [res EXCEPT ![1] = NoRes]
    /\ ui' = EndRun([ui EXCEPT
                       !.last = Event("save", 0,
                                      IF res[1].ok THEN "saved"
                                      ELSE "error")],
                    IF res[1].ok THEN "run" ELSE "ready")
    /\ UNCHANGED <<db, wdb, writer, shared, tin, tout, now>>

\* the browser session ends and the user logs in in a new one: the keys
\* of the page are gone from st.session_state
UiNewSession ==
    /\ ui.pc = "ready"
    /\ ui' = [NoUi EXCEPT !.user_id = ui.user_id, !.last_activity = now]
    /\ UNCHANGED <<storeVars, tin, tout, now>>

\* another browser session of the same user works on the store through
\* connection 2, at any time: it adds a location and saves an entry that
\* cites the newest location; the steps of its calls are those of the two
\* functions
OtherAddLocation(name) == AddLocationCall(2, UiUser, name)

OtherSaveEntry ==
    SaveEntryCall(2, UiUser, T0800, T1700, NoneText, NoneText,
                  <<Len(db.locations)>>)

(***************************************************************************)
(* Specification SpecUI: the page of user 1 on stores that hold an active  *)
(* and a deactivated location of the user, without or with an entry of     *)
(* today that cites both, while another session of the user adds a         *)
(* location and saves entries.                                             *)
(***************************************************************************)

UiLocations ==
    << [user_id |-> 1, name |-> <<"K">>, active |-> TRUE],
       [user_id |-> 1, name |-> <<"É">>, active |-> FALSE] >>

UiSeeds ==
    { [locations |-> UiLocations, daily_entries |-> <<>>,
       daily_locations |-> {}],
      [locations |-> UiLocations,
       daily_entries |->
          << [user_id |-> 1, entry_date |-> Today, start_time |-> T0800,
              end_time |-> T1700, break_start |-> NoneText,
              break_end |-> NoneText] >>,
       daily_locations |->
          { [entry_id |-> 1, location_id |-> 2, sequence_order |-> 1],
            [entry_id |-> 1, location_id |-> 1, sequence_order |-> 2] }] }

\* names typed into "Location Name"
UiNames == { <<>>, <<"k">>, <<"é">>, <<"é", "!">>, <<"K", "!">> }

\* values of the four time inputs
UiTimes == { <<480, 1020, 720, 750>>, <<1020, 480, 720, 750>> }

InitUI == (\E d \in UiSeeds : InitStore(d)) /\ IdleTime /\ IdleUi

\* names the other session adds
OtherNames == { <<"é">> }

NextUI ==
    \/ UiNewSession
    \/ UiGetUserLocations
    \/ UiSelectTodaysEntry
    \/ UiSelectEntryLocations
    \/ UiPlainRun
    \/ UiSwitchMode
    \/ \E name \in UiNames : UiAddNew(name)
    \/ \E id \in 1..Len(db.locations) : UiAddToSequence(id)
    \/ \E id \in 1..Len(db.locations) : UiRemove(id)
    \/ \E t \in UiTimes : UiSave(t[1], t[2], t[3], t[4])
    \/ UiAfterAddLocation
    \/ UiAfterSave
    \/ \E name \in OtherNames : OtherAddLocation(name)
    \/ OtherSaveEntry
    \/ Return(2)
    \/ \E c \in Conns :
          \/ AddLocationCheck(c)
          \/ AddLocationInsert(c)
          \/ AddLocationCommit(c)
          \/ \E kind \in {"integrity", "error"} : AddLocationFault(c, kind)
          \/ SaveEntryBegin(c)
          \/ SaveEntryUpsert(c)
          \/ SaveEntryDelete(c)
          \/ SaveEntryInsert(c)
          \/ SaveEntryCommit(c)
          \/ \E kind \in {"check", "unique", "error"} : SaveEntryFault(c, kind)

SpecUI == InitUI /\ [][NextUI]_vars

(***************************************************************************)
(* The login page (painter_app/main.py) and the session timeout            *)
(***************************************************************************)

SESSION_TIMEOUT_MINUTES == 30

\* is_session_expired(last_activity, timeout_minutes) at time t
is_session_expired(last_activity, timeout_minutes, t) ==
    IF last_activity = None THEN TRUE
    ELSE t - last_activity > timeout_minutes

\* del st.session_state[key] for logged_in, username, user_id and
\* last_activity
Cleared(s) ==
    [s EXCEPT !.logged_in = FALSE, !.user_id = 0, !.last_activity = None]

\* check_session() at time t; pc = "run" where it ends in a rerun
check_session(s, t) ==
    IF s.logged_in
    THEN IF is_session_expired(s.last_activity, SESSION_TIMEOUT_MINUTES, t)
         THEN [Cleared(s) EXCEPT !.pc = "run"]
         ELSE [s EXCEPT !.last_activity = t, !.pc = "ready"]
    ELSE [s EXCEPT !.pc = "ready"]

\* the user opens the other page: its widgets are not on the screen until
\* the script has run
Navigate(page) ==
    /\ ui.pc = "ready"
    /\ page # ui.page
    /\ ui' = [ui EXCEPT !.page = page, !.pc = "run",
                        !.last = Event("navigate", 0, page)]
    /\ UNCHANGED <<storeVars, tin, tout, now>>

\* a run of main.py without a click
MainRun ==
    /\ ui.page = "main"
    /\ ui.pc \in {"run", "ready"}
    /\ LET s == check_session(ui, now)
       IN  ui' = [s EXCEPT
                    !.last = Event("main", 0,
                                   IF s.pc = "run" THEN "expired"
                                   ELSE IF s.logged_in THEN "welcome"
                                   ELSE "login_form")]
    /\ UNCHANGED <<storeVars, tin, tout, now>>

\* the login form is submitted with the credentials of user u, or with
\* credentials of nobody (u = 0)
MainLogin(u) ==
    /\ ui.page = "main"
    /\ ui.pc = "ready"
    /\ ~ui.logged_in
    /\ IF u \in Users
       THEN ui' = [ui EXCEPT !.logged_in = TRUE, !.user_id = u,
                             !.last_activity = now, !.pc = "run",
                             !.last = Event("main", u, "login")]
       ELSE ui' = [ui EXCEPT !.last = Event("main", 0, "invalid")]
    /\ UNCHANGED <<storeVars, tin, tout, now>>

\* "Logout": check_session runs first and reruns on an expired session
MainLogout ==
    /\ ui.page = "main"
    /\ ui.pc = "ready"
    /\ ui.logged_in
    /\ LET s == check_session(ui, now)
       IN  ui' = [Cleared(s) EXCEPT
                    !.pc = "run",
                    !.last = Event("main", 0,
                                   IF s.pc = "run" THEN "expired"
                                   ELSE "logout")]
    /\ UNCHANGED <<storeVars, tin, tout, now>>

\* daily_entry.main for a session that is not logged in: st.stop()
EntryStopped ==
    /\ ui.page = "entry"
    /\ ui.pc \in {"run", "ready"}
    /\ ~ui.logged_in
    /\ ui' = [ui EXCEPT !.pc = "ready",
                        !.last = Event("entry", 0, "login_first")]
    /\ UNCHANGED <<storeVars, tin, tout, now>>

\* largest value of the clock
MaxClock == 33

\* 30 or 31 minutes pass while no script runs
Tick(minutes) ==
    /\ ui.pc = "ready"
    /\ now + minutes <= MaxClock
    /\ now' = now + minutes
    /\ UNCHANGED <<storeVars, tin, tout, ui>>

(***************************************************************************)
(* Specification SpecSession: one browser session, alone on the store, in  *)
(* which the two users log in and out, open the daily-entry page and work  *)
(* on it while time passes.                                                *)
(***************************************************************************)

\* a new browser session: nobody is logged in, the login page is open
LoggedOutUi ==
    [Cleared(NoUi) EXCEPT !.page = "main"]

SessionLocations ==
    << [user_id |-> 1, name |-> <<"K">>, active |-> TRUE],
       [user_id |-> 2, name |-> <<"k">>, active |-> TRUE] >>

\* user 1 has an entry of today that cites location 1
SessionSeed ==
    [locations |-> SessionLocations,
     daily_entries |->
        << [user_id |-> 1, entry_date |-> Today, start_time |-> T0800,
            end_time |-> T1700, break_start |-> NoneText,
            break_end |-> NoneText] >>,
     daily_locations |->
        { [entry_id |-> 1, location_id |-> 1, sequence_order |-> 1] }]

InitSession ==
    /\ InitStore(SessionSeed)
    /\ IdleTime
    /\ ui = LoggedOutUi
    /\ now = 0

NextSession ==
    \/ \E page \in {"main", "entry"} : Navigate(page)
    \/ MainRun
    \/ \E u \in Users \cup {0} : MainLogin(u)
    \/ MainLogout
    \/ EntryStopped
    \/ \E minutes \in {30, 31} : Tick(minutes)
    \/ UiGetUserLocations
    \/ UiSelectTodaysEntry
    \/ UiSelectEntryLocations
    \/ UiPlainRun
    \/ UiSwitchMode
    \/ \E name \in {<<"k">>, <<"é">>} : UiAddNew(name)
    \/ UiAfterAddLocation
    \/ \E id \in 1..Len(db.locations) : UiAddToSequence(id)
    \/ \E id \in 1..Len(db.locations) : UiRemove(id)
    \/ UiSave(480, 1020, 720, 750)
    \/ UiAfterSave
    \/ AddLocationCheck(1)
    \/ AddLocationInsert(1)
    \/ AddLocationCommit(1)
    \/ \E kind \in {"integrity", "error"} : AddLocationFault(1, kind)
    \/ SaveEntryBegin(1)
    \/ SaveEntryUpsert(1)
    \/ SaveEntryDelete(1)
    \/ SaveEntryInsert(1)
    \/ SaveEntryCommit(1)
    \/ \E kind \in {"check", "unique", "error"} : SaveEntryFault(1, kind)

SpecSession == InitSession /\ [][NextSession]_vars

(***************************************************************************)
(* Properties                                                              *)
(***************************************************************************)

\* the sequence rows a complete save of location_ids leaves for an entry
WholeSequence(entry_id, location_ids) ==
    {[entry_id |-> entry_id, location_id |-> location_ids[i],
      sequence_order |-> i] : i \in 1..Len(location_ids)}

SequenceRowsOf(d, entry_id) ==
    {r \in d.daily_locations : r.entry_id = entry_id}

\* the store after a complete save_entry(a) on store d: the user's entry
\* of today carries the submitted fields and exactly the new sequence,
\* everything else is as in d
IsCompleteSave(d, e, a) ==
    \E id \in 1..Len(e.daily_entries) :
        /\ e.daily_entries[id] = EntryRow(a)
        /\ IF EntryIds(d.daily_entries, a.user_id, Today) = {}
           THEN id = Len(d.daily_entries) + 1
           ELSE id \in EntryIds(d.daily_entries, a.user_id, Today)
        /\ Len(e.daily_entries) = IF id > Len(d.daily_entries)
                                  THEN Len(d.daily_entries) + 1
                                  ELSE Len(d.daily_entries)
        /\ \A j \in 1..Len(d.daily_entries) :
              j # id => e.daily_entries[j] = d.daily_entries[j]
        /\ SequenceRowsOf(e, id) = WholeSequence(id, a.location_ids)
        /\ \A j \in 1..Len(d.daily_entries) :
              j # id => SequenceRowsOf(e, j) = SequenceRowsOf(d, j)
        /\ e.locations = d.locations

\* C1: save_entry is atomic: every step of every call leaves the committed
\* store either as it was or with the complete new entry and its complete
\* new sequence; no partial entry or sequence is ever committed, and an
\* entry returned by get_todays_entry, also by a call that a save
\* overlaps, carries a whole sequence at the positions 1..N, N >= 1.
C1_SaveAtomic ==
    [][ /\ \/ db' = db
           \/ \E c \in Conns : /\ call[c].op = "save_entry"
                               /\ pc[c] = "insert"
                               /\ res'[c] = Ok(MsgSaved)
                               /\ IsCompleteSave(db, db', call[c])
        /\ \A c \in Conns :
              (call'[c].op = "get_todays_entry" /\ pc'[c] = "returned"
                 /\ res'[c].entry # NoEntry)
              => /\ Len(res'[c].entry.locations) >= 1
                 /\ \A i \in 1..Len(res'[c].entry.locations) :
                       res'[c].entry.locations[i].sequence_order = i ]_vars

\* a save failed inside its transaction, over an existing entry, and a
\* reader holds an entry of the same user with a start time that a save
\* has replaced since the reader's first SELECT
C1_Witness ==
    /\ pc[1] = "returned"
    /\ call[1].op = "save_entry"
    /\ call[1].entry_id # 0
    /\ res[1] = Fail(MsgDatabaseError)
    /\ EntryIds(db.daily_entries, call[1].user_id, Today) # {}
    /\ pc[2] = "returned"
    /\ call[2].op = "get_todays_entry"
    /\ call[2].user_id = call[1].user_id
    /\ res[2].entry # NoEntry
    /\ res[2].entry.start_time
          # db.daily_entries[res[2].entry.id].start_time

\* C2: after a successful save_entry the sequence rows of the user's entry
\* of today are one row per element of location_ids, in input order, at
\* the 1-based index, and nothing of an earlier save remains.
C2_SequenceReplaced ==
    [][ \A c \in Conns :
          (call[c].op = "save_entry" /\ pc'[c] = "returned"
             /\ pc[c] # "returned" /\ res'[c].ok)
          => \E id \in EntryIds(db'.daily_entries, call[c].user_id, Today) :
                SequenceRowsOf(db', id)
                    = WholeSequence(id, call[c].location_ids) ]_vars

\* a successful save of two locations, the higher id first
C2_Witness ==
    /\ pc[1] = "returned"
    /\ res[1] = Ok(MsgSaved)
    /\ Len(call[1].location_ids) = 2
    /\ call[1].location_ids[1] > call[1].location_ids[2]
    /\ SequenceRowsOf(db, call[1].entry_id)
           = WholeSequence(call[1].entry_id, call[1].location_ids)

AtMostOneEntryPerDay(d) ==
    \A u \in Users, day \in {Today - 1, Today} :
        Cardinality(EntryIds(d.daily_entries, u, day)) <= 1

\* C3: the store never holds two entries for one (user_id, entry_date);
\* a successful save for a pair that has an entry keeps that entry and
\* overwrites its four time fields.
C3_OneEntryPerUserDay ==
    [][ /\ AtMostOneEntryPerDay(db')
        /\ \A c \in Conns :
             (call[c].op = "save_entry" /\ pc'[c] = "returned"
                /\ pc[c] # "returned" /\ res'[c].ok
                /\ EntryIds(db.daily_entries, call[c].user_id, Today) # {})
             => /\ Len(db'.daily_entries) = Len(db.daily_entries)
                /\ EntryIds(db'.daily_entries, call[c].user_id, Today)
                      = EntryIds(db.daily_entries, call[c].user_id, Today)
                /\ \A id \in EntryIds(db.daily_entries, call[c].user_id,
                                      Today) :
                      /\ db'.daily_entries[id].start_time
                            = call[c].start_time
                      /\ db'.daily_entries[id].end_time = call[c].end_time
                      /\ db'.daily_entries[id].break_start
                            = call[c].break_start
                      /\ db'.daily_entries[id].break_end
                            = call[c].break_end ]_vars

\* a successful second save with another start time: both users have an
\* entry of today and user 1 also the one of the day before
C3_Witness ==
    /\ pc[1] = "returned"
    /\ res[1] = Ok(MsgSaved)
    /\ call[1].user_id = 1
    /\ call[1].start_time = T900
    /\ Len(db.daily_entries) = 3
    /\ db.daily_entries[call[1].entry_id].start_time = T900

\* the TimeEntry invariant of one stored row; a break field is set when it
\* is neither NULL nor empty
TimeEntryInvariant(e) ==
    LET ws == parse_time(e.start_time)
        we == parse_time(e.end_time)
        bs == IF Truthy(e.break_start) THEN parse_time(e.break_start)
                                       ELSE None
        be == IF Truthy(e.break_end) THEN parse_time(e.break_end) ELSE None
    IN  /\ ws # None /\ we # None /\ ws < we
        /\ Truthy(e.break_start) = Truthy(e.break_end)
        /\ Truthy(e.break_start) =>
              /\ bs # None /\ be # None
              /\ bs < be /\ bs > ws /\ be < we

\* C4: every persisted time entry satisfies the TimeEntry invariant; no
\* entry is stored whose break fields are set but do not parse as HH:MM.
C4_EntriesValid ==
    \A id \in 1..Len(db.daily_entries) :
        TimeEntryInvariant(db.daily_entries[id])

\* the rules of the time validation, on clock times or None
BothSet(i) == i.break_start # None /\ i.break_end # None
Rule1(i) == i.work_start >= i.work_end
Rule2(i) == (i.break_start # None) # (i.break_end # None)
Rule3(i) == BothSet(i) /\ i.break_start >= i.break_end
Rule4(i) == BothSet(i) /\ i.break_start <= i.work_start
Rule5(i) == BothSet(i) /\ i.break_end >= i.work_end

FirstViolated(i) ==
    IF Rule1(i) THEN ErrWorkOrder
    ELSE IF Rule2(i) THEN ErrBreakBoth
    ELSE IF Rule3(i) THEN ErrBreakOrder
    ELSE IF Rule4(i) THEN ErrBreakEarly
    ELSE IF Rule5(i) THEN ErrBreakLate
    ELSE ""

\* C5: validate_times reports exactly the first violated rule in the
\* order work order, one break field only, break order, break start not
\* after work start, break end not before work end; it succeeds if and
\* only if no rule is violated.
C5_FirstViolatedRule ==
    tout.fn = "validate_times" =>
        /\ ~tout.raised
        /\ tout.error = FirstViolated(tin)
        /\ tout.ok <=> ~(Rule1(tin) \/ Rule2(tin) \/ Rule3(tin)
                           \/ Rule4(tin) \/ Rule5(tin))

\* rules 4 and 5 are both violated and rule 4 is the one reported
C5_Witness ==
    /\ tout.fn = "validate_times"
    /\ ~Rule1(tin) /\ ~Rule3(tin) /\ Rule4(tin) /\ Rule5(tin)
    /\ tout.error = ErrBreakEarly

WorkedMinutes(i) ==
    (i.work_end - i.work_start)
        - (IF BothSet(i) THEN i.break_end - i.break_start ELSE 0)

\* C6: for accepted times calculate_hours returns the worked minutes (work
\* window minus the actual break) as hours rounded to 2 decimals, and a
\* deduction of 30 exactly when the break lasts more than 30 minutes; the
\* deduction is not subtracted from the hours.
C6_HoursAndDeduction ==
    (tout.fn = "calculate_hours" /\ FirstViolated(tin) = "") =>
        /\ 60 * tout.hours >= 100 * WorkedMinutes(tin) - 30
        /\ 60 * tout.hours <= 100 * WorkedMinutes(tin) + 30
        /\ tout.deduction =
              IF BothSet(tin) /\ tin.break_end - tin.break_start > 30
              THEN 30 ELSE 0

\* 08:00-17:00 with break 12:00-12:45 gives 8.25 hours and deduction 30
C6_Witness ==
    /\ tout.fn = "calculate_hours"
    /\ tin = [work_start |-> 480, break_start |-> 720, break_end |-> 765,
              work_end |-> 1020]
    /\ tout.hours = 825
    /\ tout.deduction = 30

\* the submitted texts as validate_times receives them
ParsedArgs(a) ==
    [work_start |-> parse_time(a.start_time),
     break_start |-> IF Truthy(a.break_start) THEN parse_time(a.break_start)
                                              ELSE None,
     break_end |-> IF Truthy(a.break_end) THEN parse_time(a.break_end)
                                          ELSE None,
     work_end |-> parse_time(a.end_time)]

TimesParse(a) ==
    /\ ParsedArgs(a).work_start \notin {None, TypeError}
    /\ ParsedArgs(a).work_end \notin {None, TypeError}

TimesAccepted(a) == TimesParse(a) /\ FirstViolated(ParsedArgs(a)) = ""

RejectedByValidation(a) ==
    /\ TimesParse(a)
    /\ FirstViolated(ParsedArgs(a)) # "" \/ a.location_ids = <<>>

\* C7: a save_entry call rejected by validation (a violated time rule or
\* an empty location list) returns the failure without any change of the
\* store.
C7_RejectedSaveChangesNothing ==
    [][ \A c \in Conns :
          (pc[c] = "save_entry" /\ pc'[c] # "save_entry"
             /\ RejectedByValidation(call[c]))
          => /\ pc'[c] = "returned"
             /\ res'[c] = Fail(IF FirstViolated(ParsedArgs(call[c])) # ""
                               THEN FirstViolated(ParsedArgs(call[c]))
                               ELSE MsgEmptyLocations)
             /\ db' = db
             /\ wdb' = wdb ]_vars

\* an empty list was rejected while the user has an entry of today
C7_Witness ==
    /\ pc[1] = "returned"
    /\ call[1].op = "save_entry"
    /\ call[1].location_ids = <<>>
    /\ res[1] = Fail(MsgEmptyLocations)
    /\ \E id \in EntryIds(db.daily_entries, call[1].user_id, Today) :
          SequenceRowsOf(db, id) # {}

HasRepeat(ids) ==
    \E i \in 1..Len(ids), j \in 1..Len(ids) : i < j /\ ids[i] = ids[j]

\* C8 as claimed: a save_entry call with a repeated location id, whose
\* times are accepted, ends in the sequence position collision.
C8_RepeatFailsByCollision ==
    \A c \in Conns :
        (pc[c] = "returned" /\ call[c].op = "save_entry"
           /\ TimesAccepted(call[c]) /\ HasRepeat(call[c].location_ids))
        => res[c] = Fail(MsgOrderUsed)

\* C8: a save_entry call with a repeated location id, whose times are
\* accepted, is rejected by the location check before the transaction is
\* begun and leaves the store unchanged; no sequence is persisted for it.
C8_RepeatRejectedBeforeTransaction ==
    [][ \A c \in Conns :
          (pc[c] = "save_entry" /\ pc'[c] # "save_entry"
             /\ TimesAccepted(call[c]) /\ HasRepeat(call[c].location_ids))
          => /\ pc'[c] = "returned"
             /\ res'[c] = Fail(MsgInvalidLocations)
             /\ db' = db
             /\ wdb' = wdb ]_vars

\* a list repeating an active location was rejected
C8_Witness ==
    /\ pc[1] = "returned"
    /\ call[1].op = "save_entry"
    /\ TimesAccepted(call[1])
    /\ call[1].location_ids = <<1, 1>>
    /\ res[1] = Fail(MsgInvalidLocations)

\* C9: save_entry succeeds only if every id of location_ids is an active
\* location of the acting user.
C9_OnlyOwnActiveLocations ==
    \A c \in Conns :
        (pc[c] = "returned" /\ call[c].op = "save_entry" /\ res[c].ok)
        => \A id \in Range(call[c].location_ids) :
              /\ id \in 1..Len(db.locations)
              /\ db.locations[id].active
              /\ db.locations[id].user_id = call[c].user_id

\* C10: no user has two active locations whose names are equal ignoring
\* case.
C10_NoCaseInsensitiveDuplicates ==
    \A i \in 1..Len(db.locations), j \in 1..Len(db.locations) :
        (i # j /\ db.locations[i].active /\ db.locations[j].active
           /\ db.locations[i].user_id = db.locations[j].user_id)
        => PyLower(db.locations[i].name) # PyLower(db.locations[j].name)

\* C11: of two add_location calls of one user whose names are equal
\* ignoring case and whose executions overlap, at most one succeeds.
C11_AtMostOneAddSucceeds ==
    \A c \in Conns, d \in Conns :
        (c # d /\ pc[c] = "returned" /\ pc[d] = "returned"
           /\ call[c].op = "add_location" /\ call[d].op = "add_location"
           /\ call[c].user_id = call[d].user_id
           /\ PyLower(sanitize_input(call[c].name, NameMaxLength))
                 = PyLower(sanitize_input(call[d].name, NameMaxLength)))
        => ~(res[c].ok /\ res[d].ok)

\* C12 as claimed: every add_location call made when the user has cap-many
\* active locations fails with the message of the limit and inserts
\* nothing.
C12_AtCapLimitReached ==
    [][ \A c \in Conns :
          (pc[c] = "add_location" /\ pc'[c] # "add_location"
             /\ ActiveCount(db.locations, call[c].user_id) >= LocationLimit)
          => /\ res'[c] = Fail(MsgLimit)
             /\ db' = db ]_vars

\* C12: no user ever has more active locations than the cap, and a call
\* made when the user has cap-many active locations fails without
\* inserting; the failure is the limit message unless the name is rejected
\* first.
C12_CapNeverExceeded ==
    [][ /\ \A u \in Users : ActiveCount(db'.locations, u) <= LocationLimit
        /\ \A c \in Conns :
             (pc[c] = "add_location" /\ pc'[c] # "add_location"
                /\ ActiveCount(db.locations, call[c].user_id)
                      >= LocationLimit)
             => /\ pc'[c] = "returned"
                /\ ~res'[c].ok
                /\ db' = db
                /\ wdb' = wdb
                /\ LET name == sanitize_input(call[c].name, NameMaxLength)
                   IN  (name # <<>>
                          /\ ~NameTaken(db.locations, call[c].user_id, name))
                       => res'[c] = Fail(MsgLimit) ]_vars

\* a call was refused with the limit message while the user is at the cap
C12_Witness ==
    \E c \in Conns :
        /\ pc[c] = "returned"
        /\ call[c].op = "add_location"
        /\ res[c] = Fail(MsgLimit)
        /\ ActiveCount(db.locations, call[c].user_id) = LocationLimit

\* C20: calculate_break_time suggests no break for less than 360 minutes
\* of work, and otherwise a break of exactly 60 minutes from 30 minutes
\* before to 30 minutes after start + floor((end - start) / 2).
C20_BreakSuggestion ==
    tout.fn = "calculate_break_time" =>
        LET total == tin.work_end - tin.work_start
            half == CHOOSE h \in 0..720 : 2 * h <= total /\ total < 2 * h + 2
        IN  /\ ~tout.raised
            /\ IF total < 360
               THEN tout.break_start = None /\ tout.break_end = None
               ELSE /\ tout.break_start = tin.work_start + half - 30
                    /\ tout.break_end = tin.work_start + half + 30
                    /\ tout.break_end - tout.break_start = 60

\* exactly 360 minutes of work (08:00-14:00): break 10:30-11:30
C20_Witness ==
    /\ tout.fn = "calculate_break_time"
    /\ tin.work_start = 480 /\ tin.work_end = 840
    /\ tout.break_start = 630 /\ tout.break_end = 690

\* C18: a save_entry call whose start or end time does not parse returns
\* a failure result to the caller: it raises no exception and changes
\* nothing in the store.
C18_MalformedTimeReported ==
    [][ \A c \in Conns :
          (pc[c] = "save_entry" /\ pc'[c] # "save_entry"
             /\ call[c].op = "save_entry" /\ ~TimesParse(call[c]))
          => /\ pc'[c] = "returned"
             /\ ~res'[c].raised
             /\ ~res'[c].ok
             /\ db' = db
             /\ wdb' = wdb ]_vars

SequenceOrdersOf(d, entry_id) ==
    {r.sequence_order : r \in SequenceRowsOf(d, entry_id)}

\* C19: in every committed state each time entry has at least one
\* sequence row, and the positions of its N rows are exactly 1..N, none
\* repeated.
C19_SequenceDense ==
    \A id \in 1..Len(db.daily_entries) :
        LET N == Cardinality(SequenceRowsOf(db, id))
        IN  N >= 1 /\ SequenceOrdersOf(db, id) = 1..N

\* a two-location save was committed while three entries are stored
C19_Witness ==
    /\ pc[1] = "returned"
    /\ call[1].op = "save_entry"
    /\ res[1] = Ok(MsgSaved)
    /\ Len(db.daily_entries) = 3
    /\ Cardinality(SequenceRowsOf(db, call[1].entry_id)) = 2
    /\ SequenceOrdersOf(db, call[1].entry_id) = {1, 2}

SavedHours(a) ==
    calculate_hours(ParsedArgs(a).work_start, ParsedArgs(a).break_start,
                    ParsedArgs(a).break_end, ParsedArgs(a).work_end)

\* C15: get_todays_entry after a successful save_entry of the same user
\* returns the saved start, end and break times and the saved locations in
\* order, and the hours displayed from it are calculate_hours of the saved
\* times with the saved break; without an entry of today it returns none.
C15_SaveGetRoundTrip ==
    [][ \A u \in Users :
          (pc[2] \in {"idle", "entry_locations"} /\ pc'[2] = "returned"
             /\ call'[2].op = "get_todays_entry" /\ call'[2].user_id = u)
          => LET e == res'[2].entry
                 a == call[1]
             IN  /\ (pc[2] = "idle"
                       /\ EntryIds(db.daily_entries, u, Today) = {})
                    => e = NoEntry
                 /\ call'[2].after_save
                    => /\ e # NoEntry
                       /\ e.start_time = a.start_time
                       /\ e.end_time = a.end_time
                       /\ DictGet(e, "break_start") = a.break_start
                       /\ DictGet(e, "break_end") = a.break_end
                       /\ Len(e.locations) = Len(a.location_ids)
                       /\ \A i \in 1..Len(a.location_ids) :
                             e.locations[i].id = a.location_ids[i]
                       /\ DisplayedHours(e) = SavedHours(a) ]_vars

\* the entry of today of user u in store d is the whole save of call a
EntryIsSaveOf(d, u, a) ==
    \E id \in EntryIds(d.daily_entries, u, Today) :
        /\ d.daily_entries[id] = EntryRow(a)
        /\ SequenceRowsOf(d, id) = WholeSequence(id, a.location_ids)

\* C16: when the save_entry calls of two connections for one user have
\* both ended and at least one succeeded, the user has exactly one entry
\* of today, and its times and its whole sequence are those of one
\* successful call.
C16_LastWriterWins ==
    (/\ pc[1] = "returned" /\ pc[2] = "returned"
     /\ call[1].op = "save_entry" /\ call[2].op = "save_entry"
     /\ call[1].user_id = call[2].user_id
     /\ res[1].ok \/ res[2].ok)
    => /\ Cardinality(EntryIds(db.daily_entries, call[1].user_id, Today)) = 1
       /\ \E c \in Conns :
             res[c].ok /\ EntryIsSaveOf(db, call[c].user_id, call[c])

\* both calls succeeded with different times and lists; the entry is that
\* of connection 1
C16_Witness ==
    /\ pc[1] = "returned" /\ pc[2] = "returned"
    /\ call[1].user_id = call[2].user_id
    /\ res[1] = Ok(MsgSaved) /\ res[2] = Ok(MsgSaved)
    /\ call[1].start_time # call[2].start_time
    /\ call[1].location_ids # call[2].location_ids
    /\ EntryIsSaveOf(db, call[1].user_id, call[1])

\* entries of user u with their ids and sequences
EntriesOfUser(d, u) ==
    {<<id, d.daily_entries[id], SequenceRowsOf(d, id)>> :
        id \in {i \in 1..Len(d.daily_entries) :
                   d.daily_entries[i].user_id = u}}

\* C17: a step that changes the entries or sequences of a user is the end
\* of a save_entry call for that user; calls for other users, ending well
\* or not, leave them as they are.
C17_OtherUsersUntouched ==
    [][ \A u \in Users :
          EntriesOfUser(db', u) # EntriesOfUser(db, u)
          => \E c \in Conns : /\ pc[c] # "returned" /\ pc'[c] = "returned"
                              /\ call[c].op = "save_entry"
                              /\ call[c].user_id = u
                              /\ res'[c] = Ok(MsgSaved) ]_vars

\* user 2 saved while user 1's call was under way; user 1's call failed
\* and user 2's entry is in the store
C17_Witness ==
    /\ pc[1] = "returned" /\ pc[2] = "returned"
    /\ call[1].user_id = 1 /\ call[2].user_id = 2
    /\ res[1] = Fail(MsgDatabaseError) /\ res[2] = Ok(MsgSaved)
    /\ EntryIsSaveOf(db, 2, call[2])
    /\ EntryIds(db.daily_entries, 1, Today) = {}

\* list without every occurrence of x, the others in their order
Without(list, x) ==
    LET Other(y) == y # x IN SelectSeq(list, Other)

\* C13: the selected locations of the session never hold an id twice;
\* "Add to Sequence" with an id already selected is refused and leaves
\* the list as it is, otherwise the id becomes the last element and the
\* others keep their places; a location added by name is appended in the
\* same way.
C13_NoDuplicateInSequence ==
    [][ /\ ~HasRepeat(ui'.selected_locations)
        /\ (ui.pc = "script" /\ ui'.pc # "script"
              /\ ui'.last.kind = "add_to_sequence")
           => IF ui'.last.id \in Range(ui.selected_locations)
              THEN /\ ui'.last.outcome = "already"
                   /\ ui'.selected_locations = ui.selected_locations
              ELSE /\ ui'.last.outcome = "appended"
                   /\ ui'.selected_locations =
                         Append(ui.selected_locations, ui'.last.id)
                   /\ ui'.selected_locations[Len(ui.selected_locations) + 1]
                         = ui'.last.id
        /\ (ui.pc = "add_location" /\ ui'.pc # "add_location"
              /\ ui'.last.outcome = "appended")
           => /\ ui'.last.id \notin Range(ui.selected_locations)
              /\ ui'.selected_locations =
                    Append(ui.selected_locations, ui'.last.id) ]_vars

\* an id already selected was refused while two ids are selected
C13_Witness ==
    /\ ui.last.kind = "add_to_sequence"
    /\ ui.last.outcome = "already"
    /\ Len(ui.selected_locations) = 2
    /\ ui.last.id = ui.selected_locations[1]

C21_SuggestedBreakAccepted ==
    (tout.fn = "suggested_break" /\ tin.work_start < tin.work_end)
    => /\ ~tout.raised
       /\ tout.ok
       /\ tout.error = ""
       /\ tin.work_start < tout.break_start
       /\ tout.break_start < tout.break_end
       /\ tout.break_end < tin.work_end
       /\ tout.deduction = 30

\* the break suggested for exactly 360 minutes of work was accepted
C21_Witness ==
    /\ tout.fn = "suggested_break"
    /\ tin.work_end - tin.work_start = 360
    /\ tout.ok
    /\ tout.deduction = 30

\* location id is an active location of user u in store d
OwnActive(d, u, id) ==
    /\ id \in 1..Len(d.locations)
    /\ d.locations[id].user_id = u
    /\ d.locations[id].active

\* the selected ids that are active locations of user u, in their order
OwnActiveOf(d, u, selected) ==
    LET Own(id) == OwnActive(d, u, id) IN SelectSeq(selected, Own)

\* C22: the list the page hands to save_entry holds only ids of active
\* locations of the logged-in user: it is the session's sequence without
\* the ids that are not among them, the others in their order.
C22_SavedListPurged ==
    [][ (pc[1] = "idle" /\ pc'[1] = "save_entry")
        => /\ call'[1].user_id = ui.user_id
           /\ \A i \in 1..Len(call'[1].location_ids) :
                 OwnActive(db, ui.user_id, call'[1].location_ids[i])
           /\ call'[1].location_ids
                 = OwnActiveOf(db, ui.user_id, ui.selected_locations)
           /\ ui'.selected_locations = call'[1].location_ids ]_vars

\* user 2 saves the location added under their login, in a session whose
\* sequence was first loaded from user 1's entry
C22_Witness ==
    /\ ui.pc = "save_entry"
    /\ ui.user_id = 2
    /\ call[1].op = "save_entry"
    /\ call[1].user_id = 2
    /\ call[1].location_ids = <<3>>
    /\ OwnActive(db, 2, 3)
    /\ get_todays_entry(db, 1) # NoEntry

SessionExpired ==
    is_session_expired(ui.last_activity, SESSION_TIMEOUT_MINUTES, now)

\* a step that starts a run of a page script
IsPageRun ==
    /\ ui.pc \in {"run", "ready"}
    /\ ui' # ui
    /\ ui'.last.kind # "navigate"

\* C23: no add_location or save_entry starts for a session whose time
\* since last_activity is over the timeout (or that has no last_activity);
\* a page run of such a session, on either page, clears logged_in, user_id
\* and last_activity; a page run of a session that is not expired sets
\* last_activity to the time of the run and keeps the login (unless the
\* run is the logout).
C23_ExpiredSessionLocked ==
    [][ /\ (pc[1] = "idle" /\ pc'[1] \in {"add_location", "save_entry"})
           => ~SessionExpired
        /\ (IsPageRun /\ ui.logged_in /\ SessionExpired)
           => /\ ~ui'.logged_in
              /\ ui'.user_id = 0
              /\ ui'.last_activity = None
        /\ (IsPageRun /\ ui.logged_in /\ ~SessionExpired
              /\ ui'.last.outcome # "logout")
           => /\ ui'.logged_in
              /\ ui'.last_activity = now ]_vars

====
